---- MODULE Spec2Model ----
(***************************************************************************)
(* A model of s3test (src/src/main.rs): a command-line tool that checks    *)
(* that bucket versioning is enabled and then runs one subcommand against  *)
(* an S3-compatible object store.                                          *)
(*                                                                         *)
(* Strings are sequences of one-character strings, so that prefix          *)
(* matching, slicing and lower-casing are computed as the code computes    *)
(* them.  An Option<T> is <<>> (None) or <<x>> (Some(x)).                  *)
(***************************************************************************)
EXTENDS Integers, Sequences, FiniteSets, TLC

VARIABLES
    store,       \* the bucket: a sequence of object versions, in listing order
    nextVid,     \* the next version id the store assigns
    versioning,  \* the bucket's versioning status, as the store reports it
    pc,          \* pc[i]: where invocation i is in main
    cmd,         \* cmd[i]: args.command of invocation i
    v_res,       \* v_res[i]: the status the versioning call returned
    bytes,       \* bytes[i]: the payload read from file_path
    hash,        \* hash[i]: the hex MD5 of bytes
    listed,      \* listed[i]: ver_result.versions of the last version listing
    exist,       \* exist[i]: the result of get_version_for_hash
    calls,       \* calls[i]: the store calls issued so far, in order
    out,         \* out[i]: the lines printed so far
    exit,        \* exit[i]: the process exit status (-1 while running)
    fail,        \* fail[i]: why the run failed ("none" when it did not)
    ntag,        \* the tag given to the entity-tag normalization
    nout         \* its result

vars == <<store, nextVid, versioning, pc, cmd, v_res, bytes, hash, listed,
          exist, calls, out, exit, fail, ntag, nout>>

runvars == <<store, nextVid, versioning, pc, cmd, v_res, bytes, hash, listed,
             exist, calls, out, exit, fail>>

----------------------------------------------------------------------------
(* Bounds and input sets *)

\* the longest initial version list of the bucket
MaxSeed == 2

\* the longest tag given to the normalization on its own
MaxTagLen == 3

Procs == {"i1", "i2"}

QUOTE == "\""

None == <<>>

Some(x) == <<x>>

\* object keys; the first is a proper prefix of the second
Keys == {<<"a">>, <<"a", "b">>}

Prefixes == Keys \cup {<<"b">>}

Payloads == {"p1", "p2", "p3"}

\* file_path arguments: a readable file per payload, and an unreadable one
Paths == Payloads \cup {"nofile"}

TagChars == {QUOTE, "a", "A", "b"}

RECURSIVE SeqsUpTo(_, _)
SeqsUpTo(S, n) ==
    IF n = 0 THEN {<<>>}
    ELSE LET shorter == SeqsUpTo(S, n - 1)
         IN  shorter \cup {Append(s, x) : s \in shorter, x \in S}

----------------------------------------------------------------------------
(* Pure functions *)

ToAsciiLowercaseChar(c) ==
    CASE c = "A" -> "a"
      [] c = "B" -> "b"
      [] c = "C" -> "c"
      [] c = "D" -> "d"
      [] OTHER -> c

ToAsciiLowercase(s) == [k \in 1..Len(s) |-> ToAsciiLowercaseChar(s[k])]

ToAsciiUppercaseChar(c) ==
    CASE c = "a" -> "A"
      [] c = "b" -> "B"
      [] c = "c" -> "C"
      [] c = "d" -> "D"
      [] OTHER -> c

\* the result of a normalization that panicked
Panic == <<"panic">>

\* &str[1..str.len()-1]: the slice without its first and last byte; a string
\* shorter than two bytes makes the slice panic
SliceInner(s) ==
    IF Len(s) < 2 THEN Panic ELSE SubSeq(s, 2, Len(s) - 1)

\* e_tag().to_ascii_lowercase(), then [1..len-1]
Normalize(etag) == SliceInner(ToAsciiLowercase(etag))

\* format!("{:x}", md5::Md5::digest(&bytes)): a fixed-length lower-case hex
\* digest; p1 and p3 are two payloads with one digest
Md5Hex(p) ==
    CASE p = "p1" -> <<"a", "b">>
      [] p = "p2" -> <<"c", "d">>
      [] p = "p3" -> <<"a", "b">>

PayloadSize(p) ==
    CASE p = "p1" -> 5
      [] p = "p2" -> 7
      [] p = "p3" -> 9

StartsWith(s, p) == Len(p) <= Len(s) /\ SubSeq(s, 1, Len(p)) = p

----------------------------------------------------------------------------
(* The object store, as the calls of main.rs use it *)

\* the entity tag the store attaches to a payload: its hex MD5 in quotes
StoreETag(p) == <<QUOTE>> \o Md5Hex(p) \o <<QUOTE>>

\* some S3-compatible stores render the hex digest in upper case
StoreETagUpper(p) ==
    <<QUOTE>> \o [k \in 1..Len(Md5Hex(p)) |-> ToAsciiUppercaseChar(Md5Hex(p)[k])]
              \o <<QUOTE>>

Version(key, vid, size, etag) ==
    [key |-> key, vid |-> vid, size |-> size, etag |-> etag]

\* a response field that is a list: absent or empty when there is nothing to
\* return, present otherwise
Responses(list) == IF list = <<>> THEN {None, Some(<<>>)} ELSE {Some(list)}

\* list_object_versions().set_prefix(Some(name)): every version whose key
\* starts with the prefix, in the store's order
ListObjectVersions(s, prefix) ==
    SelectSeq(s, LAMBDA v : StartsWith(v.key, prefix))

HasObject(s, key) == \E k \in 1..Len(s) : s[k].key = key

KeyOrder == <<<<"a">>, <<"a", "b">>>>

\* list_objects_v2().prefix(p): the keys that hold an object and start with p
ListObjectsV2(s, prefix) ==
    SelectSeq(KeyOrder, LAMBDA key : HasObject(s, key) /\ StartsWith(key, prefix))

\* variant: a put the store refuses when the key already holds that content
PutObjectIfAbsent(s, key, p, vid) ==
    IF \E k \in 1..Len(s) : s[k].key = key /\ s[k].etag = StoreETag(p)
    THEN s
    ELSE <<Version(key, vid, PayloadSize(p), StoreETag(p))>> \o s

\* put_object().key(name).body(bytes): a new version of the key, the newest
StorePutObject(s, key, p, vid) ==
    <<Version(key, vid, PayloadSize(p), StoreETag(p))>> \o s

\* delete_object().key(name).version_id(version)
StoreDeleteObject(s, key, vid) ==
    SelectSeq(s, LAMBDA v : ~(v.key = key /\ v.vid = vid))

\* copy_object().copy_source(bucket/source).key(dest): the newest version of
\* the source becomes a new version of dest
StoreCopyObject(s, source, dest, vid) ==
    LET from == SelectSeq(s, LAMBDA v : v.key = source)[1]
    IN  <<Version(dest, vid, from.size, from.etag)>> \o s

----------------------------------------------------------------------------
(* The helpers of main.rs *)

\* variant: only an explicit Suspended status is refused
VersioningAny(status) == status = None \/ status[1] # "Suspended"

\* !(v_res.status.is_none() || *v_res.status().unwrap() != Enabled)
VersioningEnabled(status) == status # None /\ status[1] = "Enabled"

\* variant: the subcommand is dispatched without the versioning check
AfterConfigureSkipGate == "dispatch"

\* the statement that follows the client's construction
AfterConfigure == "gate"

Line(kind) == [kind |-> kind]

DisplayObjectList(contents) ==
    IF contents # None
    THEN [k \in 1..Len(contents[1]) |->
            [kind |-> "Object", key |-> contents[1][k]]]
    ELSE <<Line("no contents")>>

VersionLine(version, tag) ==
    [kind |-> "version", vid |-> version.vid, size |-> version.size, tag |-> tag]

\* variant: the loop stops one entry short
FormatVersionsDropLast(versions) ==
    IF versions # None /\ versions[1] # <<>>
    THEN [k \in 1..(Len(versions[1]) - 1) |->
            VersionLine(versions[1][k], Normalize(versions[1][k].etag))]
    ELSE <<>>

\* the loop of Commands::ListVersions
FormatVersions(versions) ==
    IF versions # None
    THEN [k \in 1..Len(versions[1]) |->
            VersionLine(versions[1][k], Normalize(versions[1][k].etag))]
    ELSE <<>>

\* the loop of get_version_for_hash: the first version whose normalized
\* entity tag equals the hash
GetVersionForHash(versions, h) ==
    IF versions # None
    THEN LET hits == {k \in 1..Len(versions[1]) : Normalize(versions[1][k].etag) = h}
         IN  IF hits = {} THEN None
             ELSE Some(versions[1][CHOOSE k \in hits : \A m \in hits : k <= m].vid)
    ELSE None

\* variant: the conflict does not end the run
AfterDedupAlwaysPut(found) == "put"

\* if let Some(ver) = exist { ...; process::exit(1) }
AfterDedup(found) == IF found # None THEN "done" ELSE "put"

----------------------------------------------------------------------------
(* Initial states *)

SeedContents ==
    {[size |-> PayloadSize("p1"), etag |-> StoreETag("p1")],
     [size |-> PayloadSize("p1"), etag |-> StoreETagUpper("p1")],
     [size |-> PayloadSize("p2"), etag |-> StoreETag("p2")]}

\* the version lists the bucket may hold when the tool starts; version ids
\* are unique
Seeds ==
    {[k \in 1..Len(q) |-> Version(q[k][1], k, q[k][2].size, q[k][2].etag)] :
        q \in SeqsUpTo(Keys \X SeedContents, MaxSeed)}

VersionIds == 1..MaxSeed

Commands ==
    {[op |-> "None"], [op |-> "ListFiles"]}
    \cup {[op |-> "Ls", prefix |-> p] : p \in Prefixes}
    \cup {[op |-> "ListVersions", name |-> n] : n \in Keys}
    \cup {[op |-> "PutVersion", name |-> n, file_path |-> f] : n \in Keys, f \in Paths}
    \cup {[op |-> "DeleteVersion", name |-> n, version |-> v] : n \in Keys, v \in VersionIds}
    \cup {[op |-> "CopyObject", source |-> a, dest |-> b] : a \in Keys, b \in Keys}

PutCommands == {c \in Commands : c.op = "PutVersion"}

InitRun(active, commands) ==
    /\ store \in Seeds
    /\ nextVid = Len(store) + 1
    /\ versioning \in {"Enabled", "Suspended", "Unset"}
    /\ pc = [i \in Procs |-> IF i \in active THEN "start" ELSE "idle"]
    /\ cmd \in [Procs -> commands]
    /\ \A i \in Procs \ active : cmd[i] = [op |-> "None"]
    /\ v_res = [i \in Procs |-> None]
    /\ bytes = [i \in Procs |-> None]
    /\ hash = [i \in Procs |-> None]
    /\ listed = [i \in Procs |-> None]
    /\ exist = [i \in Procs |-> None]
    /\ calls = [i \in Procs |-> <<>>]
    /\ out = [i \in Procs |-> <<>>]
    /\ exit = [i \in Procs |-> -1]
    /\ fail = [i \in Procs |-> "none"]

\* one invocation against a bucket other runs may have filled
Init ==
    /\ InitRun({"i1"}, Commands)
    /\ ntag = <<>>
    /\ nout = None

----------------------------------------------------------------------------
(* The steps of main *)

\* the process ends: process::exit(code), a panic, or main's return
Ends(i, code, why, lines) ==
    /\ pc' = [pc EXCEPT ![i] = "done"]
    /\ exit' = [exit EXCEPT ![i] = code]
    /\ fail' = [fail EXCEPT ![i] = why]
    /\ out' = [out EXCEPT ![i] = out[i] \o lines]

Continues(i, to) ==
    /\ pc' = [pc EXCEPT ![i] = to]
    /\ UNCHANGED <<exit, fail, out>>

Calls(i, call) == calls' = [calls EXCEPT ![i] = Append(calls[i], call)]

\* lines 51-72: the arguments and the environment; a missing variable panics
Configure(i) ==
    /\ pc[i] = "start"
    /\ \E env_ok \in BOOLEAN :
         IF env_ok THEN Continues(i, AfterConfigure)
         ELSE Ends(i, 101, "config", <<>>)
    /\ UNCHANGED <<store, nextVid, versioning, cmd, v_res, bytes, hash, listed,
                   exist, calls, ntag, nout>>

\* lines 74-82: the versioning check
Gate(i) ==
    /\ pc[i] = "gate"
    /\ Calls(i, "GetBucketVersioning")
    /\ \E sent \in BOOLEAN :
         IF ~sent
         THEN /\ Ends(i, 1, "transport", <<>>)
              /\ UNCHANGED v_res
         ELSE LET status == IF versioning = "Unset" THEN None ELSE Some(versioning)
              IN  /\ v_res' = [v_res EXCEPT ![i] = Some(status)]
                  /\ IF VersioningEnabled(status)
                     THEN Continues(i, "dispatch")
                     ELSE Ends(i, 1, "precondition", <<Line("versioning not enabled")>>)
    /\ UNCHANGED <<store, nextVid, versioning, cmd, bytes, hash, listed, exist,
                   ntag, nout>>

\* lines 85-88
NoCommand(i) ==
    /\ pc[i] = "dispatch"
    /\ cmd[i].op = "None"
    /\ Ends(i, 1, "nocommand", <<Line("no command specified")>>)
    /\ UNCHANGED <<store, nextVid, versioning, cmd, v_res, bytes, hash, listed,
                   exist, calls, ntag, nout>>

\* lines 89-103: list-files and ls
ListObjects(i) ==
    /\ pc[i] = "dispatch"
    /\ cmd[i].op \in {"ListFiles", "Ls"}
    /\ Calls(i, "ListObjectsV2")
    /\ \E sent \in BOOLEAN :
         IF ~sent THEN Ends(i, 1, "transport", <<>>)
         ELSE LET prefix == IF cmd[i].op = "Ls" THEN cmd[i].prefix ELSE <<>>
              IN  \E contents \in Responses(ListObjectsV2(store, prefix)) :
                     Ends(i, 0, "none", DisplayObjectList(contents))
    /\ UNCHANGED <<store, nextVid, versioning, cmd, v_res, bytes, hash, listed,
                   exist, ntag, nout>>

\* lines 104-115
ListVersions(i) ==
    /\ pc[i] = "dispatch"
    /\ cmd[i].op = "ListVersions"
    /\ Calls(i, "ListObjectVersions")
    /\ \E sent \in BOOLEAN :
         IF ~sent
         THEN /\ Ends(i, 1, "transport", <<>>)
              /\ UNCHANGED listed
         ELSE \E versions \in Responses(ListObjectVersions(store, cmd[i].name)) :
                 /\ listed' = [listed EXCEPT ![i] = Some(versions)]
                 /\ Ends(i, 0, "none", FormatVersions(versions))
    /\ UNCHANGED <<store, nextVid, versioning, cmd, v_res, bytes, hash, exist,
                   ntag, nout>>

\* lines 117-118: read the file and hash it
ReadFile(i) ==
    /\ pc[i] = "dispatch"
    /\ cmd[i].op = "PutVersion"
    /\ IF cmd[i].file_path \in Payloads
       THEN /\ bytes' = [bytes EXCEPT ![i] = Some(cmd[i].file_path)]
            /\ hash' = [hash EXCEPT ![i] = Some(Md5Hex(cmd[i].file_path))]
            /\ Continues(i, "dedup")
       ELSE /\ Ends(i, 1, "fileread", <<>>)
            /\ UNCHANGED <<bytes, hash>>
    /\ UNCHANGED <<store, nextVid, versioning, cmd, v_res, listed, exist, calls,
                   ntag, nout>>

\* lines 119-123 and get_version_for_hash
DedupCheck(i) ==
    /\ pc[i] = "dedup"
    /\ Calls(i, "ListObjectVersions")
    /\ \E sent \in BOOLEAN :
         IF ~sent
         THEN /\ Ends(i, 1, "transport", <<>>)
              /\ UNCHANGED <<listed, exist>>
         ELSE \E versions \in Responses(ListObjectVersions(store, cmd[i].name)) :
                 LET found == GetVersionForHash(versions, hash[i][1])
                 IN  /\ listed' = [listed EXCEPT ![i] = Some(versions)]
                     /\ exist' = [exist EXCEPT ![i] = found]
                     /\ IF AfterDedup(found) = "done"
                        THEN Ends(i, 1, "conflict",
                                  <<[kind |-> "version already exists", vid |-> found[1]]>>)
                        ELSE Continues(i, AfterDedup(found))
    /\ UNCHANGED <<store, nextVid, versioning, cmd, v_res, bytes, hash, ntag, nout>>

\* lines 124-131
PutObject(i) ==
    /\ pc[i] = "put"
    /\ Calls(i, "PutObject")
    /\ \E sent \in BOOLEAN :
         IF ~sent
         THEN /\ Ends(i, 1, "transport", <<>>)
              /\ UNCHANGED <<store, nextVid>>
         ELSE /\ store' = StorePutObject(store, cmd[i].name, bytes[i][1], nextVid)
              /\ nextVid' = nextVid + 1
              /\ Ends(i, 0, "none", <<[kind |-> "put version", vid |-> nextVid]>>)
    /\ UNCHANGED <<versioning, cmd, v_res, bytes, hash, listed, exist, ntag, nout>>

\* lines 133-141
DeleteVersion(i) ==
    /\ pc[i] = "dispatch"
    /\ cmd[i].op = "DeleteVersion"
    /\ Calls(i, "DeleteObject")
    /\ \E sent \in BOOLEAN :
         IF ~sent
         THEN /\ Ends(i, 1, "transport", <<>>)
              /\ UNCHANGED store
         ELSE /\ store' = StoreDeleteObject(store, cmd[i].name, cmd[i].version)
              /\ Ends(i, 0, "none", <<Line("delete result")>>)
    /\ UNCHANGED <<nextVid, versioning, cmd, v_res, bytes, hash, listed, exist,
                   ntag, nout>>

\* lines 142-150; the store answers a copy of a missing source with an error
CopyObject(i) ==
    /\ pc[i] = "dispatch"
    /\ cmd[i].op = "CopyObject"
    /\ Calls(i, "CopyObject")
    /\ \E sent \in BOOLEAN :
         IF ~sent \/ ~HasObject(store, cmd[i].source)
         THEN /\ Ends(i, 1, "transport", <<>>)
              /\ UNCHANGED <<store, nextVid>>
         ELSE /\ store' = StoreCopyObject(store, cmd[i].source, cmd[i].dest, nextVid)
              /\ nextVid' = nextVid + 1
              /\ Ends(i, 0, "none", <<Line("copy result")>>)
    /\ UNCHANGED <<versioning, cmd, v_res, bytes, hash, listed, exist, ntag, nout>>

Step(i) ==
    \/ Configure(i)
    \/ Gate(i)
    \/ NoCommand(i)
    \/ ListObjects(i)
    \/ ListVersions(i)
    \/ ReadFile(i)
    \/ DedupCheck(i)
    \/ PutObject(i)
    \/ DeleteVersion(i)
    \/ CopyObject(i)

Next == \E i \in Procs : Step(i)

Spec == Init /\ [][Next]_vars

----------------------------------------------------------------------------
(* Two put-version invocations running against one bucket *)

InitRace ==
    /\ InitRun(Procs, PutCommands)
    /\ ntag = <<>>
    /\ nout = None

NextRace ==
    \E i \in Procs :
        \/ Configure(i)
        \/ Gate(i)
        \/ ReadFile(i)
        \/ DedupCheck(i)
        \/ PutObject(i)

SpecRace == InitRace /\ [][NextRace]_vars

----------------------------------------------------------------------------
(* The entity-tag normalization on its own, applied to any short tag *)

InitNormalize ==
    /\ store = <<>>
    /\ nextVid = 1
    /\ versioning = "Enabled"
    /\ pc = [i \in Procs |-> "idle"]
    /\ cmd = [i \in Procs |-> [op |-> "None"]]
    /\ v_res = [i \in Procs |-> None]
    /\ bytes = [i \in Procs |-> None]
    /\ hash = [i \in Procs |-> None]
    /\ listed = [i \in Procs |-> None]
    /\ exist = [i \in Procs |-> None]
    /\ calls = [i \in Procs |-> <<>>]
    /\ out = [i \in Procs |-> <<>>]
    /\ exit = [i \in Procs |-> -1]
    /\ fail = [i \in Procs |-> "none"]
    /\ ntag \in SeqsUpTo(TagChars, MaxTagLen)
    /\ nout = None

NormalizeTag ==
    /\ nout = None
    /\ nout' = Some(Normalize(ntag))
    /\ UNCHANGED <<runvars, ntag>>

NextNormalize == NormalizeTag

SpecNormalize == InitNormalize /\ [][NextNormalize]_vars

----------------------------------------------------------------------------
(* Vocabulary of the claims *)

Count(q, x) == Cardinality({k \in 1..Len(q) : q[k] = x})

MutatingCalls == {"PutObject", "DeleteObject", "CopyObject"}

Mutations(i) == Cardinality({k \in 1..Len(calls[i]) : calls[i][k] \in MutatingCalls})

Quoted(t) == <<QUOTE>> \o t \o <<QUOTE>>

\* the versions of a listing response (none when the list is absent)
Entries(versions) == IF versions = None THEN <<>> ELSE versions[1]

Printed(i, kind) == \E k \in 1..Len(out[i]) : out[i][k].kind = kind

Skipped(i) == Printed(i, "version already exists")

Uploaded(i) == Printed(i, "put version")

\* the versioning call of invocation i was answered, with a status other
\* than Enabled or with none
ReportedNotEnabled(i) == v_res[i] # None /\ v_res[i][1] # Some("Enabled")

\* the versions of exactly the key of invocation i, in a listing, whose
\* content is the payload's
SameContent(i, versions) ==
    {k \in 1..Len(Entries(versions)) :
        /\ Entries(versions)[k].key = cmd[i].name
        /\ ToAsciiLowercase(Entries(versions)[k].etag) = Quoted(hash[i][1])}

VersionsOf(s, key) == Cardinality({k \in 1..Len(s) : s[k].key = key})

----------------------------------------------------------------------------
(* C1 *)

\* C1 as stated: every invocation, whatever its subcommand, issues the
\* get-bucket-versioning call exactly once over its run, and before any
\* other store call.
C1_GateOnceInEveryRun ==
    \A i \in Procs :
        /\ pc[i] = "done" => Count(calls[i], "GetBucketVersioning") = 1
        /\ calls[i] # <<>> => calls[i][1] = "GetBucketVersioning"

\* C1 amended: the versioning call is never issued twice and is the first
\* store call of a run; every invocation whose configuration resolved has
\* issued it exactly once by the time it dispatches or ends; an invocation
\* that stops on a missing setting issues no store call at all.
C1_GateFirstAndOnce ==
    \A i \in Procs :
        /\ Count(calls[i], "GetBucketVersioning") <= 1
        /\ calls[i] # <<>> => calls[i][1] = "GetBucketVersioning"
        /\ pc[i] \in {"dispatch", "dedup", "put"}
              => Count(calls[i], "GetBucketVersioning") = 1
        /\ pc[i] = "done" /\ fail[i] # "config"
              => Count(calls[i], "GetBucketVersioning") = 1
        /\ fail[i] = "config" => calls[i] = <<>>

C1_Witness ==
    \E i \in Procs :
        /\ pc[i] = "done"
        /\ cmd[i].op = "CopyObject"
        /\ calls[i] = <<"GetBucketVersioning", "CopyObject">>

----------------------------------------------------------------------------
(* C2 *)

\* C2: when the store reports a versioning status other than Enabled, or
\* none, the run has ended with a non-zero exit status and the versioning
\* call is the only store call it ever issued, whatever the subcommand.
C2_NotEnabledStops ==
    \A i \in Procs :
        ReportedNotEnabled(i) =>
            /\ pc[i] = "done"
            /\ exit[i] # 0 /\ exit[i] # -1
            /\ calls[i] = <<"GetBucketVersioning">>

C2_Witness ==
    \E i \in Procs :
        /\ cmd[i].op = "ListFiles"
        /\ v_res[i] = Some(Some("Suspended"))
        /\ exit[i] = 1

----------------------------------------------------------------------------
(* C3 *)

\* C3: in a put-version run whose calls all went through, if a version of
\* the key with the payload's digest existed the upload is rejected as a
\* conflict and no put is issued; if no version of the key has that digest
\* the upload proceeds, a new version id is reported and the store holds
\* that new version of the key.
C3_DedupCorrectness ==
    \A i \in Procs :
        (/\ cmd[i].op = "PutVersion"
         /\ pc[i] = "done"
         /\ listed[i] # None
         /\ fail[i] # "transport")
        => IF SameContent(i, listed[i][1]) # {}
           THEN /\ fail[i] = "conflict"
                /\ exit[i] # 0
                /\ Count(calls[i], "PutObject") = 0
           ELSE /\ exit[i] = 0
                /\ Uploaded(i)
                /\ \E k \in 1..Len(store) :
                      /\ store[k].key = cmd[i].name
                      /\ store[k].etag = Quoted(hash[i][1])
                      /\ out[i] = <<[kind |-> "put version", vid |-> store[k].vid]>>

----------------------------------------------------------------------------
(* C4 *)

\* C4: in a put-version run every put-object call comes after the
\* list-object-versions call of the dedup check; once the dedup check has
\* found a version the run is Skipped: it has printed that version's id,
\* ended with a non-zero exit status and issued no put-object call; no run
\* is both Skipped and Uploaded.
C4_SkippedNeverPuts ==
    \A i \in Procs :
        cmd[i].op = "PutVersion" =>
            /\ \A k \in 1..Len(calls[i]) :
                  calls[i][k] = "PutObject" =>
                      \E j \in 1..(k - 1) : calls[i][j] = "ListObjectVersions"
            /\ exist[i] # None =>
                  /\ pc[i] = "done"
                  /\ out[i] = <<[kind |-> "version already exists", vid |-> exist[i][1]]>>
                  /\ exit[i] # 0 /\ exit[i] # -1
                  /\ Count(calls[i], "PutObject") = 0
            /\ ~(Skipped(i) /\ Uploaded(i))

C4_Witness ==
    \E i \in Procs :
        /\ cmd[i].op = "PutVersion"
        /\ exist[i] # None
        /\ Skipped(i)
        /\ exit[i] = 1

----------------------------------------------------------------------------
(* C5 *)

\* C5: the dedup lookup returns the id of the first listed version of
\* exactly the given key whose normalized entity tag equals the digest, and
\* nothing when that key has no such version; a version of another key
\* never produces a match.
C5_MatchesExactKeyOnly ==
    \A i \in Procs :
        (cmd[i].op = "PutVersion" /\ listed[i] # None) =>
            LET versions == listed[i][1]
                hits == SameContent(i, versions)
            IN  exist[i] =
                    IF hits = {} THEN None
                    ELSE Some(Entries(versions)[CHOOSE k \in hits :
                                                   \A m \in hits : k <= m].vid)

----------------------------------------------------------------------------
(* C6 *)

\* C6: a list-versions run that received N version entries has printed
\* exactly N lines, the k-th carrying the k-th entry's version id, its size
\* and its entity tag lower-cased and without the surrounding quotes.
C6_OneLinePerVersion ==
    \A i \in Procs :
        (cmd[i].op = "ListVersions" /\ listed[i] # None) =>
            LET entries == Entries(listed[i][1])
            IN  /\ Len(out[i]) = Len(entries)
                /\ \A k \in 1..Len(entries) :
                      /\ out[i][k].kind = "version"
                      /\ out[i][k].vid = entries[k].vid
                      /\ out[i][k].size = entries[k].size
                      /\ Quoted(out[i][k].tag) = ToAsciiLowercase(entries[k].etag)

C6_Witness ==
    \E i \in Procs :
        /\ cmd[i].op = "ListVersions"
        /\ listed[i] # None
        /\ Len(Entries(listed[i][1])) = 2
        /\ Entries(listed[i][1])[2].etag = StoreETagUpper("p1")
        /\ Len(out[i]) = 2
        /\ out[i][1].vid # out[i][2].vid

----------------------------------------------------------------------------
(* C7 *)

\* C7: a listing run (list-files, ls, list-versions) that succeeded and
\* found no object, or no version, has printed the "no contents" line.
C7_EmptyResultSaysNoContents ==
    \A i \in Procs :
        /\ (/\ cmd[i].op \in {"ListFiles", "Ls"}
            /\ pc[i] = "done" /\ exit[i] = 0
            /\ ListObjectsV2(store, IF cmd[i].op = "Ls" THEN cmd[i].prefix ELSE <<>>) = <<>>)
           => out[i] = <<Line("no contents")>>
        /\ (/\ cmd[i].op = "ListVersions"
            /\ pc[i] = "done" /\ exit[i] = 0
            /\ Entries(listed[i][1]) = <<>>)
           => out[i] = <<Line("no contents")>>

----------------------------------------------------------------------------
(* C8 *)

AlreadyNormalized(t) ==
    \A k \in 1..Len(t) : t[k] # QUOTE /\ ToAsciiLowercaseChar(t[k]) = t[k]

\* C8: the normalization applied to a tag that is already normalized (no
\* quote character, lower case) returns that tag.
C8_NormalizeIdempotent ==
    (nout # None /\ AlreadyNormalized(ntag)) => nout[1] = ntag

----------------------------------------------------------------------------
(* C9 *)

\* the run of invocation i failed before its operation could mutate: on a
\* missing setting, the versioning precondition, a missing subcommand, an
\* unreadable file, a dedup conflict, or an error of a read-only call
FailedBeforeMutation(i) ==
    \/ fail[i] \in {"config", "precondition", "nocommand", "fileread", "conflict"}
    \/ ReportedNotEnabled(i)
    \/ exist[i] # None
    \/ /\ fail[i] = "transport"
       /\ calls[i][Len(calls[i])] \notin MutatingCalls

\* C9: an invocation issues at most one mutating store call (put-object,
\* delete-object, copy-object) over its run, and none at all when it fails
\* on configuration, the precondition, a conflict, the file read or a
\* listing error.
C9_AtMostOneMutation ==
    \A i \in Procs :
        /\ Mutations(i) <= 1
        /\ FailedBeforeMutation(i) => Mutations(i) = 0

C9_Witness ==
    \E i \in Procs :
        /\ pc[i] = "done"
        /\ fail[i] = "transport"
        /\ calls[i] = <<"GetBucketVersioning", "ListObjectVersions">>
        /\ cmd[i].op = "PutVersion"

----------------------------------------------------------------------------
(* C10 *)

\* C10: nothing ties the put to the dedup check: every invocation that
\* reports an upload has added its own version to the store, whatever the
\* store held by then, so two invocations that both uploaded the same
\* content to one key leave two versions of identical content.
C10_PutIgnoresLaterVersions ==
    \A i \in Procs :
        Uploaded(i) =>
            /\ \E k \in 1..Len(store) :
                  /\ out[i] = <<[kind |-> "put version", vid |-> store[k].vid]>>
                  /\ store[k].key = cmd[i].name
                  /\ store[k].etag = Quoted(hash[i][1])
            /\ \A j \in Procs \ {i} :
                  (Uploaded(j) /\ cmd[j].name = cmd[i].name /\ hash[j] = hash[i])
                  => Cardinality({k \in 1..Len(store) :
                                     /\ store[k].key = cmd[i].name
                                     /\ store[k].etag = Quoted(hash[i][1])}) >= 2

\* both invocations passed the dedup check before either put, and both
\* uploaded the same payload to the same key
C10_Witness ==
    /\ cmd["i1"].name = cmd["i2"].name
    /\ cmd["i1"].file_path = cmd["i2"].file_path
    /\ \A i \in Procs :
          /\ Uploaded(i)
          /\ exist[i] = None
          /\ listed[i] # None
          /\ SameContent(i, listed[i][1]) = {}
    /\ Cardinality({k \in 1..Len(store) :
                       /\ store[k].key = cmd["i1"].name
                       /\ store[k].etag = Quoted(hash["i1"][1])}) = 2

====
